---- MODULE Spec2Model ----
(***************************************************************************)
(* A model of import-embargo (import_embargo/core.py): policy resolution  *)
(* with its cache (get_package_config), the prefix test                    *)
(* (is_operation_allowed), the two-directional edge check                  *)
(* (check_for_allowed) and the scan loop (check_for_violations, main).     *)
(*                                                                         *)
(* Strings are sequences of one-character strings, so that str.replace,    *)
(* str.rstrip and the trie's prefix search are computed character by       *)
(* character, as the code computes them.  A Path is a sequence of          *)
(* components (each a string); << >> is the filesystem root "/".           *)
(***************************************************************************)
EXTENDS Integers, Sequences, FiniteSets, TLC

VARIABLES
  fs,                 \* the policy file (or its absence) in each directory
  config_lookup,      \* main: config_lookup (policy file path -> Config)
  import_violations,  \* main: import_violations
  export_violations,  \* main: export_violations
  imp_local,          \* check_for_violations: import_violations
  exp_local,          \* check_for_violations: export_violations
  file_idx,           \* main: position of the loop over filenames_to_check
  nodes,              \* check_for_violations: local_import_nodes
  node_idx,           \* check_for_violations: position of the loop over nodes
  pc,                 \* where the run is
  exit_code,          \* the status the process ends with
  trace,              \* every check_for_allowed call made so far, with its outcome
  reads,              \* how often each policy file was read (read_text)
  resolved,           \* the latest get_package_config call and what it returned
  q_key,              \* the JSON value an allow pair is built from
  q_allow,            \* is_operation_allowed: the allow pair under test
  q_module,           \* is_operation_allowed: the candidate
  q_result            \* is_operation_allowed: the answer

vars == <<fs, config_lookup, import_violations, export_violations, imp_local,
          exp_local, file_idx, nodes, node_idx, pc, exit_code, trace, reads,
          resolved, q_key, q_allow, q_module, q_result>>

----------------------------------------------------------------------------
(* Strings *)

Dot == <<".">>
Slash == <<"/">>
DotPy == <<".", "p", "y">>

startswith(s, p) == Len(p) <= Len(s) /\ SubSeq(s, 1, Len(p)) = p

endswith(s, p) == Len(p) <= Len(s) /\ SubSeq(s, Len(s) - Len(p) + 1, Len(s)) = p

\* str.replace(old, new), old not empty: leftmost occurrences, not overlapping
RECURSIVE replace(_, _, _)
replace(s, old, new) ==
  IF Len(s) < Len(old) THEN s
  ELSE IF SubSeq(s, 1, Len(old)) = old
       THEN new \o replace(SubSeq(s, Len(old) + 1, Len(s)), old, new)
       ELSE <<Head(s)>> \o replace(Tail(s), old, new)

\* str.rstrip("."): every trailing dot goes
RECURSIVE rstrip_dot(_)
rstrip_dot(s) ==
  IF s # <<>> /\ s[Len(s)] = "." THEN rstrip_dot(SubSeq(s, 1, Len(s) - 1)) ELSE s

\* str.split(sep)[0]
RECURSIVE first_piece(_, _)
first_piece(s, sep) ==
  IF s = <<>> \/ Head(s) = sep THEN <<>> ELSE <<Head(s)>> \o first_piece(Tail(s), sep)

----------------------------------------------------------------------------
(* Paths *)

EmbargoFile == <<"__embargo__.json">>

parent(p) == IF p = <<>> THEN <<>> ELSE SubSeq(p, 1, Len(p) - 1)

\* Path(s) for a relative s: the components between slashes, empty ones dropped
RECURSIVE PathOf(_)
PathOf(s) ==
  IF s = <<>> THEN <<>>
  ELSE IF Head(s) = "/" THEN PathOf(Tail(s))
  ELSE LET c == first_piece(s, "/")
       IN <<c>> \o PathOf(SubSeq(s, Len(c) + 1, Len(s)))

\* str(p) for a relative path p; the empty relative path prints as "."
RECURSIVE StrOf(_)
StrOf(p) ==
  IF p = <<>> THEN Dot
  ELSE IF Len(p) = 1 THEN p[1]
  ELSE p[1] \o Slash \o StrOf(Tail(p))

\* path.relative_to(root_path), for a path under root_path
relative_to(path, root_path) == SubSeq(path, Len(root_path) + 1, Len(path))

build_path_from_import(module_import, root_path) ==
  root_path \o PathOf(replace(module_import, Dot, Slash))

build_module_from_path(path, root_path) ==
  replace(replace(StrOf(relative_to(path, root_path)), Slash, Dot), DotPy, <<>>)

----------------------------------------------------------------------------
(* The file tree of the run: the application root /r with packages a (and  *)
(* its subpackage a/s) and c, and one file that is not Python source.      *)

root == << <<"r">> >>

A == <<"a">>
C == <<"c">>
AB == <<"a", ".", "b">>
AS == <<"a", ".", "s">>
ASE == <<"a", ".", "s", ".", "e">>
APYX == <<"a", ".", "p", "y", "x">>
CD == <<"c", ".", "d">>
XY == <<"x", ".", "y">>

DirA == root \o <<A>>
DirAS == DirA \o << <<"s">> >>
DirC == root \o <<C>>

FileAB == DirA \o << <<"b", ".", "p", "y">> >>
FileAPYX == DirA \o << <<"p", "y", "x", ".", "p", "y">> >>
FileASE == DirAS \o << <<"e", ".", "p", "y">> >>
FileCD == DirC \o << <<"d", ".", "p", "y">> >>
FileNotes == root \o << <<"n", ".", "t", "x", "t">> >>

\* main: filenames_to_check, as get_filenames_to_check returned it
filenames_to_check == <<FileAB, FileNotes, FileAPYX, FileCD>>

\* what is in the working directory (the default --app-root is ".")
TopLevelDirs == {A, C}
TopLevelFiles == {<<"n", ".", "t", "x", "t">>}

Node(m) == [module |-> m, none |-> FALSE]
NodeNone == [module |-> <<>>, none |-> TRUE]

\* ast.ImportFrom nodes of each file: "from . import x" has module None
get_import_nodes(filename) ==
  IF filename = FileAB THEN <<Node(CD), Node(XY), NodeNone>>
  ELSE IF filename = FileAPYX THEN <<Node(CD)>>
  ELSE IF filename = FileCD THEN <<Node(AB), Node(ASE)>>
  ELSE <<>>

is_local_import(module_import) ==
  IF module_import.none THEN FALSE
  ELSE LET first_package == first_piece(module_import.module, ".")
       IN first_package \in TopLevelDirs \/ (first_package \o DotPy) \in TopLevelFiles

\* filter(is_local_import, import_nodes)
RECURSIVE local_import_nodes(_)
local_import_nodes(import_nodes) ==
  IF import_nodes = <<>> THEN <<>>
  ELSE (IF is_local_import(Head(import_nodes)) THEN <<Head(import_nodes)>> ELSE <<>>)
         \o local_import_nodes(Tail(import_nodes))

----------------------------------------------------------------------------
(* Policy files *)

Absent == [present |-> "absent", items |-> <<>>]
Null == [present |-> "null", items |-> <<>>]
List(xs) == [present |-> "list", items |-> xs]

NoFile == [kind |-> "none", imp |-> Absent, exp |-> Absent, byp |-> Absent]
Malformed == [kind |-> "malformed", imp |-> Absent, exp |-> Absent, byp |-> Absent]
Unreadable == [kind |-> "unreadable", imp |-> Absent, exp |-> Absent, byp |-> Absent]
Object(i, e, b) == [kind |-> "object", imp |-> i, exp |-> e, byp |-> b]

\* the JSON key of each mode (the list of get_package_config's loop)
KeyOf(content, which) ==
  IF which = "IMPORT" THEN content.imp
  ELSE IF which = "EXPORT" THEN content.exp
  ELSE content.byp

Modes == {"IMPORT", "EXPORT", "BYPASS"}

\* the directories that may hold a policy file; "/" lies above the root
PolicyDirs == {<<>>, root, DirA, DirAS, DirC}

AboveRootPolicies == {NoFile, Object(List(<<>>), List(<<>>), List(<<>>))}
RootPolicies == {NoFile, Malformed, Object(List(<<C>>), List(<<>>), Absent)}
APolicies ==
  {NoFile, Unreadable}
    \cup {Object(i, e, Absent) :
            i \in {Absent, Null, List(<<>>), List(<<C>>), List(<<A, AB>>)},
            e \in {Absent, List(<<AB>>)}}
ASPolicies == {NoFile, Malformed, Object(Absent, List(<<>>), List(<<C>>))}
CPolicies ==
  {NoFile, Malformed}
    \cup {Object(Absent, e, b) :
            e \in {Absent, Null, List(<<>>), List(<<CD>>), List(<<AB>>)},
            b \in {Absent, Null, List(<<>>), List(<<A>>), List(<<AB>>), List(<<APYX>>)}}

FileSystems ==
  {[d \in PolicyDirs |->
      IF d = <<>> THEN p0 ELSE IF d = root THEN p1 ELSE IF d = DirA THEN p2
      ELSE IF d = DirAS THEN p3 ELSE p4] :
     p0 \in AboveRootPolicies, p1 \in RootPolicies, p2 \in APolicies,
     p3 \in ASPolicies, p4 \in CPolicies}

\* the policy file of a directory, "none" where the tree has no such directory
ContentOf(dir) == IF dir \in PolicyDirs THEN fs[dir] ELSE NoFile

exists_mut(potential_embargo_file) ==
  ContentOf(parent(potential_embargo_file)).kind = "object"

\* line 60: potential_embargo_file.exists()
exists(potential_embargo_file) == ContentOf(parent(potential_embargo_file)).kind # "none"

----------------------------------------------------------------------------
(* Config, the trie and the prefix test *)

\* marisa_trie.Trie(keys): a set of keys
Trie(keys) == {keys[i] : i \in 1..Len(keys)}

\* Trie.prefixes(q): the keys that are prefixes of q
prefixes(trie, q) == {k \in trie : startswith(q, k)}

NoConfig == [path |-> <<>>, allowed |-> [w \in Modes |-> <<{}, TRUE>>]]

\* lines 70-82: absent (or null) gives the empty trie flagged "allow all",
\* a list gives the trie of its entries, each with a trailing dot
ParseKey_mut(val) ==
  <<{val.items[i] \o Dot : i \in 1..Len(val.items)}, val.items = <<>>>>

ParseKey(val) ==
  IF val.present # "list" THEN <<Trie(<<>>), TRUE>>
  ELSE <<Trie([i \in 1..Len(val.items) |-> val.items[i] \o Dot]), FALSE>>

is_operation_allowed_mut(imported_module, allow) ==
  IF allow[2] THEN TRUE
  ELSE Cardinality(prefixes(allow[1], imported_module)) > 0

is_operation_allowed(imported_module, allow) ==
  IF allow[2] THEN TRUE
  ELSE Cardinality(prefixes(allow[1], imported_module \o Dot)) > 0

----------------------------------------------------------------------------
(* get_package_config: the nearest policy file at or above directory_path, *)
(* through the cache.  The result carries the cache as the call leaves it, *)
(* the policy files the call read and the directories it looked into.      *)

ConfigOf(potential_embargo_file, json_config) ==
  [path |-> potential_embargo_file,
   allowed |-> [which \in Modes |-> ParseKey(KeyOf(json_config, which))]]

Returned(kind, config, lookup, read, exc) ==
  [kind |-> kind, config |-> config, lookup |-> lookup, read |-> read,
   probed |-> {}, exc |-> exc]

cached_mut(lookup, potential_embargo_file) == FALSE

\* lines 56-57: config_lookup.get(...) is not None
cached(lookup, potential_embargo_file) == potential_embargo_file \in DOMAIN lookup

at_root_mut(directory_path, root_path) == directory_path = parent(root_path)

\* line 61: directory_path == root_path
at_root(directory_path, root_path) == directory_path = root_path

RECURSIVE get_package_config(_, _, _)
get_package_config(directory_path, root_path, lookup) ==
  LET potential_embargo_file == directory_path \o <<EmbargoFile>>
      json_config == ContentOf(directory_path)
      here(r) == [r EXCEPT !.probed = @ \cup {directory_path}]
  IN IF cached(lookup, potential_embargo_file)
       THEN here(Returned("config", lookup[potential_embargo_file], lookup, {}, "-"))
     ELSE IF ~exists(potential_embargo_file)
       THEN IF at_root(directory_path, root_path)
              THEN here(Returned("none", NoConfig, lookup, {}, "-"))
            ELSE IF directory_path = <<>>
              \* "/" is its own parent: the recursion never ends
              THEN here(Returned("raise", NoConfig, lookup, {}, "RecursionError"))
            ELSE here(get_package_config(parent(directory_path), root_path, lookup))
     ELSE IF json_config.kind = "unreadable"
       THEN here(Returned("raise", NoConfig, lookup, {directory_path}, "OSError"))
     ELSE IF json_config.kind = "malformed"
       THEN here(Returned("raise", NoConfig, lookup, {directory_path}, "JSONDecodeError"))
     ELSE LET config == ConfigOf(potential_embargo_file, json_config)
          IN here(Returned("config", config,
                           [f \in DOMAIN lookup \cup {potential_embargo_file} |->
                              IF f = potential_embargo_file THEN config ELSE lookup[f]],
                           {directory_path}, "-"))

----------------------------------------------------------------------------
(* check_for_allowed *)

NoPath == <<>>

Line(text, file, module, allowed, path) ==
  [text |-> text, file |-> file, module |-> module, allowed |-> allowed, path |-> path]

\* lines 184-192: the three lines of one violation
ViolationLines(mode, file, module, config) ==
  LET human_readable_allowed == {rstrip_dot(x) : x \in config.allowed[mode][1]}
  IN << Line("file: module", file, module, {}, NoPath),
        Line(IF mode = "EXPORT" THEN "Allowed exports" ELSE "Allowed imports",
             NoPath, <<>>, human_readable_allowed, NoPath),
        Line("Config file", NoPath, <<>>, {}, config.path) >>

Checked(outcome, out, r, directory) ==
  [outcome |-> outcome, out |-> out, directory |-> directory, resolve |-> r]

\* line 174: the bypass trie, never taken as "allow all"
BypassAllow_mut(config) == config.allowed["BYPASS"]

BypassAllow(config) == <<config.allowed["BYPASS"][1], FALSE>>

\* line 179: the module held against the allow list, in either direction
TestedModule_mut(file, app_root_path, node) == build_module_from_path(file, app_root_path)

TestedModule(file, app_root_path, node) == node.module

ActualPath_mut(mode, file, app_root_path, node) ==
  build_path_from_import(IF node.none THEN <<>> ELSE node.module, app_root_path)

\* lines 149-156: the path whose directory's policy governs the check
ActualPath(mode, file, app_root_path, node) ==
  IF mode = "EXPORT"
  THEN build_path_from_import(IF node.none THEN <<>> ELSE node.module, app_root_path)
  ELSE file

check_for_allowed(mode, file, app_root_path, lookup, node) ==
  LET actual_path == ActualPath(mode, file, app_root_path, node)
      r == get_package_config(parent(actual_path), app_root_path, lookup)
      config == r.config
      done(outcome, out) == Checked(outcome, out, r, parent(actual_path))
  IN IF r.kind = "raise" THEN done("raise", <<>>)
     ELSE IF r.kind = "none" THEN done("no_config", <<>>)
     ELSE IF node.none THEN done("no_module", <<>>)
     ELSE IF mode = "EXPORT"
             /\ is_operation_allowed(build_module_from_path(file, app_root_path),
                                     BypassAllow(config))
       THEN done("bypassed", <<>>)
     ELSE IF is_operation_allowed(TestedModule(file, app_root_path, node),
                                  config.allowed[mode])
       THEN done("allowed", <<>>)
     ELSE done("violation", ViolationLines(mode, file, node.module, config))

----------------------------------------------------------------------------
(* The run: main's loop over the files, check_for_violations' loop over    *)
(* the local import nodes of one file, two check_for_allowed calls a node. *)

NoCall ==
  [directory |-> <<>>, kind |-> "-", config |-> NoConfig, exc |-> "-",
   probed |-> {}, read |-> {}, hit |-> FALSE]

\* what a get_package_config call is remembered by
CallOf(directory, r, lookup) ==
  [directory |-> directory, kind |-> r.kind, config |-> r.config, exc |-> r.exc,
   probed |-> r.probed, read |-> r.read,
   hit |-> r.kind = "config" /\ r.config.path \in DOMAIN lookup]

Entry(mode, file, node, c) ==
  [mode |-> mode, file |-> file, module |-> node.module, outcome |-> c.outcome,
   out |-> c.out, directory |-> c.directory, kind |-> c.resolve.kind,
   config |-> c.resolve.config]

CountReads(read) == [d \in PolicyDirs |-> reads[d] + (IF d \in read THEN 1 ELSE 0)]

\* lines 288-289: exit(1) when there is a violation, else main returns
ExitStatus_mut(imports, exports) == IF Len(imports) > 0 THEN 1 ELSE 0

ExitStatus(imports, exports) == IF Len(imports) + Len(exports) > 0 THEN 1 ELSE 0

File == filenames_to_check[file_idx]

QueryVars == <<q_key, q_allow, q_module, q_result>>
MainLists == <<import_violations, export_violations>>
FileVars == <<file_idx, nodes>>

Init ==
  /\ fs \in FileSystems
  /\ config_lookup = << >>
  /\ import_violations = <<>>
  /\ export_violations = <<>>
  /\ imp_local = <<>>
  /\ exp_local = <<>>
  /\ file_idx = 1
  /\ nodes = <<>>
  /\ node_idx = 1
  /\ pc = "main"
  /\ exit_code = -1
  /\ trace = <<>>
  /\ reads = [d \in PolicyDirs |-> 0]
  /\ resolved = NoCall
  /\ q_key = Absent
  /\ q_allow = ParseKey(Absent)
  /\ q_module = <<>>
  /\ q_result = TRUE

\* lines 203-205: a file that is not *.py is not checked
SkipFile ==
  /\ pc = "main"
  /\ file_idx <= Len(filenames_to_check)
  /\ ~endswith(File[Len(File)], DotPy)
  /\ file_idx' = file_idx + 1
  /\ UNCHANGED <<fs, config_lookup, MainLists, imp_local, exp_local, nodes, node_idx,
                 pc, exit_code, trace, reads, resolved, QueryVars>>

\* lines 201-208: check_for_violations starts on a *.py file
OpenFile ==
  /\ pc = "main"
  /\ file_idx <= Len(filenames_to_check)
  /\ endswith(File[Len(File)], DotPy)
  /\ nodes' = local_import_nodes(get_import_nodes(File))
  /\ node_idx' = 1
  /\ imp_local' = <<>>
  /\ exp_local' = <<>>
  /\ pc' = "import"
  /\ UNCHANGED <<fs, config_lookup, MainLists, file_idx, exit_code, trace, reads,
                 resolved, QueryVars>>

\* what either check_for_allowed call leaves behind
Call(mode, c) ==
  /\ config_lookup' = c.resolve.lookup
  /\ reads' = CountReads(c.resolve.read)
  /\ resolved' = CallOf(c.directory, c.resolve, config_lookup)
  /\ trace' = Append(trace, Entry(mode, File, nodes[node_idx], c))

\* lines 214-220
CheckImport ==
  /\ pc = "import"
  /\ node_idx <= Len(nodes)
  /\ LET c == check_for_allowed("IMPORT", File, root, config_lookup, nodes[node_idx])
     IN /\ Call("IMPORT", c)
        /\ \/ /\ c.outcome = "raise"
              /\ pc' = "raised"
              /\ UNCHANGED imp_local
           \/ /\ c.outcome # "raise"
              /\ pc' = "export"
              /\ imp_local' = imp_local \o c.out
  /\ UNCHANGED <<fs, MainLists, exp_local, FileVars, node_idx, exit_code, QueryVars>>

\* lines 225-231
CheckExport ==
  /\ pc = "export"
  /\ LET c == check_for_allowed("EXPORT", File, root, config_lookup, nodes[node_idx])
     IN /\ Call("EXPORT", c)
        /\ \/ /\ c.outcome = "raise"
              /\ pc' = "raised"
              /\ UNCHANGED <<exp_local, node_idx>>
           \/ /\ c.outcome # "raise"
              /\ pc' = "import"
              /\ exp_local' = exp_local \o c.out
              /\ node_idx' = node_idx + 1
  /\ UNCHANGED <<fs, MainLists, imp_local, FileVars, exit_code, QueryVars>>

\* lines 233, 275-276: the file's violations join main's lists
EndFile ==
  /\ pc = "import"
  /\ node_idx > Len(nodes)
  /\ import_violations' = import_violations \o imp_local
  /\ export_violations' = export_violations \o exp_local
  /\ file_idx' = file_idx + 1
  /\ pc' = "main"
  /\ UNCHANGED <<fs, config_lookup, imp_local, exp_local, nodes, node_idx, exit_code,
                 trace, reads, resolved, QueryVars>>

\* lines 278-289
Exit ==
  /\ pc = "main"
  /\ file_idx > Len(filenames_to_check)
  /\ exit_code' = ExitStatus(import_violations, export_violations)
  /\ pc' = "done"
  /\ UNCHANGED <<fs, config_lookup, MainLists, imp_local, exp_local, FileVars, node_idx,
                 trace, reads, resolved, QueryVars>>

Next == SkipFile \/ OpenFile \/ CheckImport \/ CheckExport \/ EndFile \/ Exit

Spec == Init /\ [][Next]_vars

----------------------------------------------------------------------------
(* get_package_config on its own: any sequence of calls of one run, for    *)
(* directories at or below the root, over one cache and an unchanged tree. *)

DirAST == DirAS \o << <<"t">> >>

QueryDirs == {root, DirA, DirAS, DirAST, DirC}

InitResolve ==
  /\ fs \in FileSystems
  /\ config_lookup = << >>
  /\ import_violations = <<>>
  /\ export_violations = <<>>
  /\ imp_local = <<>>
  /\ exp_local = <<>>
  /\ file_idx = 1
  /\ nodes = <<>>
  /\ node_idx = 1
  /\ pc = "resolve"
  /\ exit_code = -1
  /\ trace = <<>>
  /\ reads = [d \in PolicyDirs |-> 0]
  /\ resolved = NoCall
  /\ q_key = Absent
  /\ q_allow = ParseKey(Absent)
  /\ q_module = <<>>
  /\ q_result = TRUE

Resolve(directory_path) ==
  /\ pc = "resolve"
  /\ LET r == get_package_config(directory_path, root, config_lookup)
     IN /\ config_lookup' = r.lookup
        /\ reads' = CountReads(r.read)
        /\ resolved' = CallOf(directory_path, r, config_lookup)
        /\ pc' = IF r.kind = "raise" THEN "raised" ELSE "resolve"
  /\ UNCHANGED <<fs, MainLists, imp_local, exp_local, FileVars, node_idx, exit_code,
                 trace, QueryVars>>

NextResolve == \E d \in QueryDirs : Resolve(d)

SpecResolve == InitResolve /\ [][NextResolve]_vars

----------------------------------------------------------------------------
(* is_operation_allowed on its own: an allow pair built from a configured  *)
(* list, asked about every candidate up to a length.                       *)

MaxLen == 5

Alphabet == {"a", "b", "c", "."}

RECURSIVE StringsUpTo(_)
StringsUpTo(n) ==
  IF n = 0 THEN {<<>>}
  ELSE LET shorter == StringsUpTo(n - 1)
       IN shorter \cup {Append(s, ch) : s \in shorter, ch \in Alphabet}

Candidates == StringsUpTo(MaxLen)

B == <<"b">>
ABC == <<"a", ".", "b", ".", "c">>
AdotBC == <<"a", ".", "b", "c">>
AC == <<"a", ".", "c">>

ConfiguredLists ==
  {<<>>, <<A>>, <<B>>, <<AB>>, <<A, B>>, <<AB, AC>>, <<AB, A>>, <<AdotBC>>,
   << <<>> >>, << <<"a", ".">> >>, <<AB, AB>>}

InitMatch ==
  /\ fs \in {[d \in PolicyDirs |-> NoFile]}
  /\ config_lookup = << >>
  /\ import_violations = <<>>
  /\ export_violations = <<>>
  /\ imp_local = <<>>
  /\ exp_local = <<>>
  /\ file_idx = 1
  /\ nodes = <<>>
  /\ node_idx = 1
  /\ pc = "match"
  /\ exit_code = -1
  /\ trace = <<>>
  /\ reads = [d \in PolicyDirs |-> 0]
  /\ resolved = NoCall
  /\ q_key \in {List(xs) : xs \in ConfiguredLists}
  /\ q_allow = ParseKey(q_key)
  /\ q_module = <<>>
  /\ q_result = FALSE

Match(imported_module) ==
  /\ pc = "match"
  /\ q_module' = imported_module
  /\ q_result' = is_operation_allowed(imported_module, q_allow)
  /\ pc' = "matched"
  /\ UNCHANGED <<fs, config_lookup, MainLists, imp_local, exp_local, FileVars, node_idx,
                 exit_code, trace, reads, resolved, q_key, q_allow>>

NextMatch == \E c \in Candidates : Match(c)

SpecMatch == InitMatch /\ [][NextMatch]_vars

----------------------------------------------------------------------------
(* What the properties are stated in: the policy files as written, the     *)
(* directories between a directory and the root, segment-aligned matching. *)

\* c is p, or c continues p after a dot
SegMatch(p, c) == c = p \/ startswith(c, p \o Dot)

\* a key as written in the policy file matches c by one of its entries
EntryMatches(key, c) ==
  key.present = "list" /\ \E i \in 1..Len(key.items) : SegMatch(key.items[i], c)

\* the file's dotted module name: its path under the root, components joined
\* by dots, the .py suffix of the file name taken off
RECURSIVE Dotted(_)
Dotted(p) ==
  IF p = <<>> THEN <<>>
  ELSE IF Len(p) = 1 THEN p[1]
  ELSE p[1] \o Dot \o Dotted(Tail(p))

ModuleNameOf(file) ==
  LET d == Dotted(relative_to(file, root))
  IN IF endswith(d, DotPy) THEN SubSeq(d, 1, Len(d) - Len(DotPy)) ELSE d

\* the directories from d up to the root, both included
PathUp(d) == {SubSeq(d, 1, k) : k \in Len(root)..Len(d)}

Holders(d) == {x \in PathUp(d) : ContentOf(x).kind # "none"}

Nearest(d) == CHOOSE x \in Holders(d) : \A y \in Holders(d) : Len(y) <= Len(x)

Governs(d) == Holders(d) # {} /\ ContentOf(Nearest(d)).kind = "object"

Policy(d) == ContentOf(Nearest(d))

PolicyPath(d) == Nearest(d) \o <<EmbargoFile>>

\* one violation: the edge, the configured allow list, the policy file
OneViolation(e, heading, key, path) ==
  e.out = << Line("file: module", e.file, e.module, {}, NoPath),
             Line(heading, NoPath, <<>>, Trie(key.items), NoPath),
             Line("Config file", NoPath, <<>>, {}, path) >>

Entries(mode) == {i \in 1..Len(trace) : trace[i].mode = mode}

ProbeModules == {<<>>, A, AB, ABC, AdotBC, APYX, CD, XY}

----------------------------------------------------------------------------
(* The edge check *)

\* an allow key as written lets c through: no list at all, or a matching entry
Lets(key, c) == key.present # "list" \/ EntryMatches(key, c)

\* the directory whose policy governs the export of a module
TargetDir(module) == parent(build_path_from_import(module, root))

\* C2: an import check reports a violation exactly when a policy governs the
\* importing file's directory and its import list does not let the imported
\* module through; the violation is one record of the file, the module, the
\* configured list and the policy file.
C2_ImportCheck ==
  \A i \in Entries("IMPORT") :
    LET e == trace[i]
        d == parent(e.file)
    IN IF Governs(d) /\ ~Lets(Policy(d).imp, e.module)
       THEN OneViolation(e, "Allowed imports", Policy(d).imp, PolicyPath(d))
       ELSE e.out = <<>>

C2_Witness ==
  \E i \in Entries("IMPORT") :
    /\ trace[i].outcome = "violation"
    /\ Policy(parent(trace[i].file)).imp.items # <<>>

\* C1 as claimed: past the bypass list, the export check holds the importer's
\* own module name against the target's export list.
C1_ImporterAgainstExportList ==
  \A i \in Entries("EXPORT") :
    LET e == trace[i]
        d == TargetDir(e.module)
    IN Governs(d) /\ ~EntryMatches(Policy(d).byp, ModuleNameOf(e.file))
         => IF Lets(Policy(d).exp, ModuleNameOf(e.file))
            THEN e.out = <<>>
            ELSE OneViolation(e, "Allowed exports", Policy(d).exp, PolicyPath(d))

\* C1 as amended: when a policy governs the imported module's directory and the
\* bypass step does not exempt the edge, the export check holds the imported
\* module's name against the target's export list: no violation when the list
\* lets it through, exactly one export violation otherwise.
C1_ImportedAgainstExportList ==
  \A i \in Entries("EXPORT") :
    LET e == trace[i]
        d == TargetDir(e.module)
    IN Governs(d) /\ e.outcome # "bypassed"
         => IF Lets(Policy(d).exp, e.module)
            THEN e.out = <<>>
            ELSE OneViolation(e, "Allowed exports", Policy(d).exp, PolicyPath(d))

C1_Witness ==
  \E i \in Entries("EXPORT") :
    LET e == trace[i]
        d == TargetDir(e.module)
    IN /\ e.outcome = "violation"
       /\ EntryMatches(Policy(d).exp, ModuleNameOf(e.file))

\* C3: an importer whose module name matches an entry of the target's bypass
\* list gets no export violation, whatever the export list holds.
C3_BypassShortCircuit ==
  \A i \in Entries("EXPORT") :
    LET e == trace[i]
        d == TargetDir(e.module)
    IN Governs(d) /\ EntryMatches(Policy(d).byp, ModuleNameOf(e.file))
         => e.out = <<>>

\* C4: with the bypass key absent from the target's policy file the bypass
\* test matches no module, the empty name included, and the export list alone
\* decides the edge; an absent export key lets every module through.
C4_BypassDefault ==
  /\ \A i \in Entries("EXPORT") :
       LET e == trace[i]
           d == TargetDir(e.module)
       IN Governs(d) /\ Policy(d).byp.present = "absent"
            => /\ e.outcome # "bypassed"
               /\ e.out = <<>> <=> Lets(Policy(d).exp, e.module)
  /\ \A f \in DOMAIN config_lookup :
       /\ ContentOf(parent(f)).byp.present = "absent"
            => \A m \in ProbeModules :
                 ~is_operation_allowed(m, BypassAllow(config_lookup[f]))
       /\ ContentOf(parent(f)).exp.present = "absent"
            => \A m \in ProbeModules :
                 is_operation_allowed(m, config_lookup[f].allowed["EXPORT"])

C4_Witness ==
  \E i \in Entries("EXPORT") :
    LET e == trace[i]
        d == TargetDir(e.module)
    IN /\ Governs(d)
       /\ Policy(d).byp.present = "absent"
       /\ Policy(d).exp.present = "list"
       /\ e.outcome = "violation"

\* the set lets every module through / lets none through
Unrestricted(allow) == \A m \in ProbeModules : is_operation_allowed(m, allow)
MatchesNothing(allow) == \A m \in ProbeModules : ~is_operation_allowed(m, allow)

\* C5 as claimed: an import or export set is unrestricted exactly when its key
\* is absent from the policy file's object.
C5_UnrestrictedIffAbsent ==
  \A f \in DOMAIN config_lookup : \A which \in {"IMPORT", "EXPORT"} :
    LET key == KeyOf(ContentOf(parent(f)), which)
        allow == config_lookup[f].allowed[which]
    IN /\ Unrestricted(allow) <=> key.present = "absent"
       /\ key = List(<<>>) => MatchesNothing(allow)

\* C5 as amended: an import or export set is unrestricted exactly when its key
\* is absent from the policy file's object or holds null; a key that holds a
\* list gives a restricted set, and the empty list one that matches nothing.
C5_UnrestrictedIffAbsentOrNull ==
  \A f \in DOMAIN config_lookup : \A which \in {"IMPORT", "EXPORT"} :
    LET key == KeyOf(ContentOf(parent(f)), which)
        allow == config_lookup[f].allowed[which]
    IN /\ Unrestricted(allow) <=> key.present \in {"absent", "null"}
       /\ key = List(<<>>) => MatchesNothing(allow)

C5_Witness ==
  \E f \in DOMAIN config_lookup :
    /\ ContentOf(parent(f)).imp.present = "null"
    /\ ContentOf(parent(f)).exp = List(<<AB>>)
    /\ Unrestricted(config_lookup[f].allowed["IMPORT"])
    /\ ~Unrestricted(config_lookup[f].allowed["EXPORT"])

----------------------------------------------------------------------------
(* The prefix test *)

\* C6: over a configured list the prefix test answers true exactly when some
\* entry p of the list is the candidate or is continued in it by a dot.
C6_SegmentAligned ==
  pc = "matched" =>
    /\ q_result <=> EntryMatches(q_key, q_module)
    /\ q_key = List(<<AB>>) /\ q_module \in {AB, ABC} => q_result
    /\ q_key = List(<<AB>>) /\ q_module \in {AdotBC, B, AC} => ~q_result
    /\ q_key = List(<<A>>) /\ q_module \in {AC, ABC} => q_result

C6_Witness ==
  /\ pc = "matched"
  /\ q_key = List(<<AB, AC>>)
  /\ q_module = ABC
  /\ q_result

----------------------------------------------------------------------------
(* Policy resolution *)

\* C7: a call for a directory at or below the root returns the Config of the
\* policy file in the deepest directory from there up to the root that holds
\* one, None exactly when none does, and looks into no directory above the
\* root, whatever the earlier calls left in the cache.
C7_NearestEnclosing ==
  resolved.kind # "-" =>
    LET d == resolved.directory
    IN /\ resolved.probed \subseteq PathUp(d)
       /\ resolved.kind = "none" <=> Holders(d) = {}
       /\ Holders(d) # {} =>
            IF Policy(d).kind = "object"
            THEN /\ resolved.kind = "config"
                 /\ resolved.config = ConfigOf(PolicyPath(d), Policy(d))
            ELSE resolved.kind = "raise"

C7_Witness ==
  /\ resolved.directory = DirAST
  /\ resolved.kind = "config"
  /\ resolved.config.path = DirA \o <<EmbargoFile>>
  /\ ContentOf(root).kind = "object"
  /\ ContentOf(<<>>).kind = "object"
  /\ root \o <<EmbargoFile>> \in DOMAIN config_lookup

\* one step of a run, as C8 requires it
C8_Step ==
  /\ \A d \in PolicyDirs : reads'[d] <= 1
  /\ \A f \in DOMAIN config_lookup :
       f \in DOMAIN config_lookup' /\ config_lookup'[f] = config_lookup[f]
  /\ \A f \in DOMAIN config_lookup' :
       /\ f = parent(f) \o <<EmbargoFile>>
       /\ config_lookup'[f].path = f
       /\ ContentOf(parent(f)).kind = "object"
       /\ reads'[parent(f)] = 1
  /\ resolved.kind = "config" /\ resolved'.directory = resolved.directory
       => /\ resolved'.kind = "config"
          /\ resolved'.config = resolved.config
          /\ resolved'.read = {}
          /\ reads' = reads
          /\ config_lookup' = config_lookup

\* C8: a policy file is read at most once in a run; a cache entry sits under
\* the path of its policy file, and once there it is never replaced, changed
\* or removed; a call for the directory of the call before it, which returned
\* a Config, returns that same Config and reads nothing.
C8_Memoized == [][C8_Step]_vars

C8_Witness ==
  /\ resolved.directory = DirAST
  /\ resolved.hit
  /\ resolved.read = {}
  /\ resolved.config.path = DirA \o <<EmbargoFile>>
  /\ reads[DirA] = 1
  /\ DirAST \o <<EmbargoFile>> \notin DOMAIN config_lookup

----------------------------------------------------------------------------
(* The scan *)

\* the violation lines of the calls made so far, in order
RECURSIVE OutsOf(_, _)
OutsOf(t, mode) ==
  IF t = <<>> THEN <<>>
  ELSE (IF Head(t).mode = mode THEN Head(t).out ELSE <<>>) \o OutsOf(Tail(t), mode)

\* the calls a full scan makes: for each *.py file and each of its local
\* import nodes, the import check and then the export check
RECURSIVE CallsOfNodes(_, _)
CallsOfNodes(file, ns) ==
  IF ns = <<>> THEN <<>>
  ELSE << <<"IMPORT", file, Head(ns).module>>, <<"EXPORT", file, Head(ns).module>> >>
         \o CallsOfNodes(file, Tail(ns))

RECURSIVE CallsOfFiles(_)
CallsOfFiles(files) ==
  IF files = <<>> THEN <<>>
  ELSE (IF endswith(Head(files)[Len(Head(files))], DotPy)
        THEN CallsOfNodes(Head(files), local_import_nodes(get_import_nodes(Head(files))))
        ELSE <<>>)
         \o CallsOfFiles(Tail(files))

CallsMade == [i \in 1..Len(trace) |-> <<trace[i].mode, trace[i].file, trace[i].module>>]

InFile == pc \in {"import", "export", "raised"}

\* C9: when main ends the status is non-zero exactly when the lists hold a
\* violation; the lists hold what every check of every processed file
\* returned, and a violation stops no later check.
C9_PassFail ==
  /\ import_violations \o (IF InFile THEN imp_local ELSE <<>>) = OutsOf(trace, "IMPORT")
  /\ export_violations \o (IF InFile THEN exp_local ELSE <<>>) = OutsOf(trace, "EXPORT")
  /\ pc = "done" =>
       /\ exit_code \in {0, 1}
       /\ exit_code # 0 <=> Len(import_violations) + Len(export_violations) > 0
       /\ CallsMade = CallsOfFiles(filenames_to_check)
  /\ pc \notin {"done", "raised"} => exit_code = -1

C9_Witness ==
  /\ pc = "done"
  /\ exit_code = 1
  /\ import_violations = <<>>
  /\ \E i, j \in Entries("EXPORT") :
       /\ i < j
       /\ trace[i].outcome = "violation"
       /\ trace[j].outcome = "violation"
       /\ trace[i].file # trace[j].file

\* the directory a check resolves the policy of
CheckedDir(e) == IF e.mode = "EXPORT" THEN TargetDir(e.module) ELSE parent(e.file)

Broken(d) == Holders(d) # {} /\ Policy(d).kind \in {"malformed", "unreadable"}

\* C10: a check whose policy file is malformed or unreadable raises, and only
\* such a check does; the raise ends the scan, so it is the last check made,
\* main sets no status, the raise adds nothing to the violation lists, and no
\* Config of a broken policy file is in the cache.
C10_ConfigErrorFatal ==
  /\ \A i \in 1..Len(trace) :
       /\ trace[i].outcome = "raise" <=> Broken(CheckedDir(trace[i]))
       /\ trace[i].outcome = "raise" =>
            i = Len(trace) /\ trace[i].out = <<>> /\ pc = "raised"
  /\ pc = "raised" =>
       /\ trace # <<>> /\ trace[Len(trace)].outcome = "raise"
       /\ exit_code = -1
       /\ import_violations \o imp_local = OutsOf(SubSeq(trace, 1, Len(trace) - 1), "IMPORT")
       /\ export_violations \o exp_local = OutsOf(SubSeq(trace, 1, Len(trace) - 1), "EXPORT")
  /\ \A f \in DOMAIN config_lookup : ContentOf(parent(f)).kind = "object"

C10_Witness ==
  /\ pc = "raised"
  /\ Len(import_violations) + Len(export_violations) > 0
  /\ trace[Len(trace)].mode = "EXPORT"
  /\ ContentOf(DirAS).kind = "malformed"

====
